---- MODULE Spec2Model ----
(***************************************************************************)
(* Model of the multivendor-ecommerce API skeleton: the database connector *)
(* (db.ts), the HTTP entrypoint, the request-logging middleware logRequest *)
(* and the error formatter errorHandler behind globalErrorHandler.         *)
(*                                                                         *)
(* Strings that are sanitized or compared are sequences of tokens: a text  *)
(* chunk, the markup token "<img>" (a tag sanitize-html discards) or the   *)
(* character "&" (which sanitize-html escapes).  The empty sequence is the *)
(* empty string, which JavaScript treats as falsy.                         *)
(***************************************************************************)
EXTENDS Integers, Sequences, FiniteSets, TLC

VARIABLES
  production,   \* process.env.NODE_ENV === "production"
  samplingRate, \* LOG_SAMPLING_RATE, in percent
  inbound,      \* the request as the client sent it
  req,          \* the request object the middlewares share (headers are mutable)
  mounted,      \* whether logRequest is part of the chain of this request
  pc,           \* position of the request in its chain
  listener,     \* the res.on("finish") callback's closure (registered, logData)
  logs,         \* entries handed to the logger for this request, in order
  nextCalls,    \* how many times logRequest invoked next for this request
  escaped,      \* an exception left logRequest
  pending,      \* the error on its way to the error-handling stage
  res,          \* the response of this request
  chosenId,     \* the correlation id logRequest chose, and the header at next()
  ehCalls,      \* calls of errorHandler so far (bounded)
  history,      \* outcomes of the errorHandler calls so far
  bootPc,       \* position of the entrypoint's top-level code
  db,           \* state of the mongoose connection attempt
  listening,    \* app.listen has bound the socket
  exitCode,     \* process exit code, -1 while the process runs
  idx,          \* express router: index of the next layer of the stack
  served        \* requests the running process has finished (bounded)

vars == <<production, samplingRate, inbound, req, mounted, pc, listener, logs,
          nextCalls, escaped, pending, res, chosenId, ehCalls, history,
          bootPc, db, listening, exitCode, idx, served>>

reqVars  == <<inbound, req, mounted, pc, listener, logs, nextCalls, escaped,
              pending, res, chosenId>>
bootVars == <<bootPc, db, listening, exitCode, idx, served>>

----------------------------------------------------------------------------
(* Bounds of the model *)

\* uuidv4() draws from this many distinct identifiers
NumUuids == 2
\* errorHandler calls followed in one behaviour of SpecErr
MaxCalls == 2
\* requests one process serves in SpecEntry
MaxServed == 2

----------------------------------------------------------------------------
(* Strings, sanitize-html and uuid *)

UuidName   == <<"uuid-1", "uuid-2", "uuid-3", "uuid-4">>
UuidPrefix == <<"uuid8-1", "uuid8-2", "uuid8-3", "uuid8-4">>

\* the values uuidv4() can return
Uuids == 1..NumUuids

\* uuidv4().slice(0, 8)
Slice8(u) == UuidPrefix[u]

DisallowedTags == {"<img>"}

\* sanitize(html) of sanitize-html with its default options, on a string:
\* tags outside the allow list are discarded, their text kept, "&" is escaped
RECURSIVE sanitize(_)
sanitize(s) ==
  IF s = <<>> THEN <<>>
  ELSE LET h == Head(s)
       IN  (IF h \in DisallowedTags THEN <<>>
            ELSE IF h = "&" THEN <<"&amp;">>
            ELSE <<h>>) \o sanitize(Tail(s))

\* JavaScript truthiness of a string
Truthy(s) == s # <<>>

EmptyMap == [k \in {} |-> <<>>]

----------------------------------------------------------------------------
(* Error values handed to errorHandler *)

\* ERROR_MESSAGES
ERROR_MESSAGES ==
  [validationFailed  |-> <<"Validation failed">>,
   invalidToken      |-> <<"Invalid token. Please login again.">>,
   tokenExpired      |-> <<"Your token has expired. Please login again.">>,
   rateLimitExceeded |-> <<"Too many requests. Please try again later.">>,
   duplicateEntry    |-> <<"Duplicate entry found.">>]

\* ERROR_MESSAGES.invalidField(field, value)
invalidField(field, value) == <<"Invalid ", field, ": ">> \o value

\* an object none of whose properties errorHandler reads is set
PlainObject ==
  [tag |-> "obj", isError |-> FALSE, cls |-> "none", name |-> "",
   code |-> "none", hasKeyValue |-> FALSE, keyValue |-> EmptyMap,
   message |-> <<>>, errors |-> EmptyMap, path |-> "", value |-> <<>>,
   statusCode |-> 0, isOperational |-> FALSE, retryAfter |-> <<>>]

\* message texts an error can carry
Messages == {<<>>, <<"boom">>, <<"<img>", "boom", "&">>}

\* null, undefined and a thrown primitive such as a string
NonObjects == {[PlainObject EXCEPT !.tag = t] : t \in {"null", "undefined", "prim"}}

\* new Error(message)
NativeErrors ==
  {[PlainObject EXCEPT !.isError = TRUE, !.name = "Error", !.message = m] :
     m \in Messages}

\* mongoose.Error.ValidationError with one invalid path
ValidationErrors ==
  {[PlainObject EXCEPT !.isError = TRUE, !.cls = "ValidationError",
                       !.name = "ValidationError",
                       !.message = <<"User validation failed">>,
                       !.errors = (p :> m)] :
     p \in {"email", "message"}, m \in {<<"<img>", "is required">>, <<"<img>">>}}

\* mongoose.Error.CastError
CastErrors ==
  {[PlainObject EXCEPT !.isError = TRUE, !.cls = "CastError",
                       !.name = "CastError",
                       !.message = <<"Cast to ObjectId failed">>,
                       !.path = "_id", !.value = v] :
     v \in {<<"abc">>, <<"<img>", "abc">>}}

\* jsonwebtoken's errors, and plain objects that only carry their name
TokenErrors ==
  {[PlainObject EXCEPT !.name = n, !.isError = e,
                       !.message = IF e THEN <<"jwt error text">> ELSE <<>>] :
     n \in {"JsonWebTokenError", "TokenExpiredError"}, e \in BOOLEAN}

\* a rate limiter's signal: { code: "RATE_LIMIT_EXCEEDED", retryAfter? }
RateLimitErrors ==
  {[PlainObject EXCEPT !.code = "RATE_LIMIT_EXCEEDED", !.isError = e,
                       !.message = IF e THEN <<"rate limited">> ELSE <<>>,
                       !.retryAfter = r] :
     e \in BOOLEAN, r \in {<<>>, <<"30">>}}

\* the driver's duplicate-key error, with and without its keyValue map
DuplicateKeyErrors ==
  {[PlainObject EXCEPT !.name = "MongoServerError", !.code = "11000",
                       !.isError = e,
                       !.message = IF e THEN <<"E11000 duplicate key">> ELSE <<>>,
                       !.hasKeyValue = kv[1], !.keyValue = kv[2]] :
     e \in BOOLEAN,
     kv \in {<<FALSE, EmptyMap>>, <<TRUE, EmptyMap>>,
             <<TRUE, ("email" :> <<"a@b.com">>)>>}}

\* AppError: an Error carrying statusCode and isOperational
AppErrors ==
  {[PlainObject EXCEPT !.isError = TRUE, !.cls = "AppError", !.name = "Error",
                       !.message = <<"<img>", "not found">>,
                       !.statusCode = c, !.isOperational = o] :
     c \in {400, 404}, o \in BOOLEAN}

Errors ==
  NonObjects \cup {PlainObject} \cup NativeErrors \cup ValidationErrors
    \cup CastErrors \cup TokenErrors \cup RateLimitErrors
    \cup DuplicateKeyErrors \cup AppErrors

----------------------------------------------------------------------------
(* errorHandler *)

\* a log entry with every field unset
NoEntry ==
  [src |-> "none", level |-> "none", correlationId |-> "", method |-> "",
   url |-> [path |-> <<>>, query |-> EmptyMap], message |-> <<>>,
   statusCode |-> 0, errorCode |-> <<>>, details |-> EmptyMap,
   hasStack |-> FALSE, hasQuery |-> FALSE, query |-> EmptyMap,
   hasBody |-> FALSE, body |-> EmptyMap,
   hasHeaders |-> FALSE, headers |-> [xcorr |-> "", corr |-> ""]]

\* a response nothing was written to
NoResponse ==
  [sent |-> FALSE, kind |-> "none", statusCode |-> 0, errorCode |-> <<>>,
   message |-> <<>>, hasDetails |-> FALSE, details |-> EmptyMap,
   hasStack |-> FALSE]

\* `${statusCode}` for the status codes in use
StatusStr(n) ==
  CASE n = 400 -> "400" [] n = 401 -> "401" [] n = 404 -> "404"
    [] n = 409 -> "409" [] n = 429 -> "429" [] OTHER -> "500"

\* the parameter defaults and the declarations before the first rule
Defaults(u2) ==
  [statusCode |-> 500, message |-> <<"Internal Server Error">>,
   errorCode |-> <<"ERR-", StatusStr(500), "-", Slice8(u2)>>,
   details |-> EmptyMap]

\* Object.values(error.errors).reduce(...): path -> sanitize(message)
ValidationDetails(error) ==
  [p \in DOMAIN error.errors |-> sanitize(error.errors[p])]

MongooseValidation(error, st) ==
  IF error.cls = "ValidationError"
  THEN [st EXCEPT !.statusCode = 400,
                  !.message = ERROR_MESSAGES.validationFailed,
                  !.details = ValidationDetails(error),
                  !.errorCode = <<"ERR-VALIDATION-400">>]
  ELSE st

MongooseCast(error, st) ==
  IF error.cls = "CastError"
  THEN [st EXCEPT !.statusCode = 400,
                  !.message = invalidField(error.path, sanitize(error.value)),
                  !.errorCode = <<"ERR-CAST-400">>]
  ELSE st

\* the rule with the errorCode assignment left out
JwtInvalidKeepsCode(error, st) ==
  IF error.name = "JsonWebTokenError"
  THEN [st EXCEPT !.statusCode = 401,
                  !.message = ERROR_MESSAGES.invalidToken]
  ELSE st

JwtInvalid(error, st) ==
  IF error.name = "JsonWebTokenError"
  THEN [st EXCEPT !.statusCode = 401,
                  !.message = ERROR_MESSAGES.invalidToken,
                  !.errorCode = <<"ERR-JWT-INVALID-401">>]
  ELSE st

JwtExpired(error, st) ==
  IF error.name = "TokenExpiredError"
  THEN [st EXCEPT !.statusCode = 401,
                  !.message = ERROR_MESSAGES.tokenExpired,
                  !.errorCode = <<"ERR-JWT-EXPIRED-401">>]
  ELSE st

RateLimit(error, st) ==
  IF error.code = "RATE_LIMIT_EXCEEDED"
  THEN [st EXCEPT !.statusCode = 429,
                  !.message = ERROR_MESSAGES.rateLimitExceeded,
                  !.errorCode = <<"ERR-RATE-LIMIT-429">>,
                  !.details = ("retryAfter" :>
                                 IF Truthy(error.retryAfter)
                                 THEN error.retryAfter ELSE <<"60">>)]
  ELSE st

IsDuplicateKey(error) == error.name = "MongoServerError" /\ error.code = "11000"

\* Object.keys(error.keyValue)[0] and the value under it; an empty map gives
\* undefined for both, and sanitize(undefined) is the empty string
DuplicateDetails(error) ==
  IF DOMAIN error.keyValue = {}
  THEN ("field" :> <<>>) @@ ("value" :> <<>>)
  ELSE LET k == CHOOSE f \in DOMAIN error.keyValue : TRUE
       IN  ("field" :> <<k>>) @@ ("value" :> sanitize(error.keyValue[k]))

DuplicateKey(error, st) ==
  IF IsDuplicateKey(error)
  THEN [st EXCEPT !.statusCode = 409,
                  !.message = ERROR_MESSAGES.duplicateEntry,
                  !.errorCode = <<"ERR-DUPLICATE-409">>,
                  !.details = DuplicateDetails(error)]
  ELSE st

CustomApp(error, st) ==
  IF error.cls = "AppError"
  THEN [st EXCEPT !.statusCode = error.statusCode,
                  !.message = sanitize(error.message),
                  !.errorCode = <<"ERR-APP-", StatusStr(error.statusCode)>>,
                  !.details = ("isOperational" :>
                                 IF error.isOperational
                                 THEN <<"true">> ELSE <<"false">>)]
  ELSE st

\* error instanceof Error && !errorDetails.message
NativeFallback(error, st) ==
  IF /\ error.isError
     /\ ~ ("message" \in DOMAIN st.details /\ Truthy(st.details["message"]))
  THEN [st EXCEPT !.message = sanitize(error.message)]
  ELSE st

\* the rules in the order the code evaluates them
Classify(error, u2) ==
  NativeFallback(error,
    CustomApp(error,
      DuplicateKey(error,
        RateLimit(error,
          JwtExpired(error,
            JwtInvalid(error,
              MongooseCast(error,
                MongooseValidation(error, Defaults(u2)))))))))

\* a property read of null or undefined (error.name), or Object.keys of a
\* missing keyValue, throws a TypeError
Raises(error) ==
  \/ error.tag \in {"null", "undefined"}
  \/ IsDuplicateKey(error) /\ ~ error.hasKeyValue

\* req.headers["x-correlation-id"] || uuidv4()
ErrorCorrelationId(r, u1) == IF r.xcorr # "" THEN r.xcorr ELSE UuidName[u1]

\* errorHandler({ req, res, error }): what it logs and what it responds, or
\* that it threw before doing either.  u1 and u2 are the uuidv4() draws.
errorHandler(r, error, prod, u1, u2) ==
  IF Raises(error)
  THEN [raised |-> TRUE, log |-> NoEntry, response |-> NoResponse]
  ELSE
    LET st == Classify(error, u2)
    IN  [raised |-> FALSE,
         log |-> [NoEntry EXCEPT
                    !.src = "errorHandler", !.level = "error",
                    !.correlationId = ErrorCorrelationId(r, u1),
                    !.method = r.method,
                    !.url = [path |-> r.path, query |-> r.query],
                    !.message = st.message, !.statusCode = st.statusCode,
                    !.errorCode = st.errorCode, !.details = st.details,
                    !.hasStack = ~ prod],
         response |-> [sent |-> TRUE, kind |-> "json",
                       statusCode |-> st.statusCode,
                       errorCode |-> st.errorCode, message |-> st.message,
                       hasDetails |-> DOMAIN st.details # {},
                       details |-> st.details,
                       hasStack |-> ~ prod]]

----------------------------------------------------------------------------
(* Requests *)

SENSITIVE_PARAMS == {"password", "token", "apiKey", "secret"}

SKIP_LOGGING_ROUTES == {"/health", "/ping", "/static"}

\* a body value: a string, or a nested object
Str(s) == [t |-> "str", s |-> s]
Obj    == [t |-> "obj", s |-> <<>>]

\* query strings of the requests followed
Queries ==
  {EmptyMap,
   ("password" :> <<>>),
   ("password" :> <<"hunter2">>),
   ("page" :> <<"2">>) @@ ("token" :> <<"hunter2">>)}

\* parsed JSON bodies of the requests followed
Bodies ==
  {EmptyMap,
   ("password" :> Str(<<>>)),
   ("password" :> Str(<<"hunter2">>)),
   ("name" :> Str(<<"bob">>)) @@ ("secret" :> Str(<<"<img>", "hunter2">>)),
   ("apiKey" :> Obj)}

\* originalUrl's path, in chunks: startsWith compares the first one
Paths == {<<"/">>, <<"/static", "/app.js">>}

HeaderValues(h) == {"", h}

\* the requests a client can send
Requests ==
  {[xcorr |-> x, corr |-> c, path |-> p, method |-> m, query |-> q, body |-> b] :
     x \in HeaderValues("id-x"), c \in HeaderValues("id-c"), p \in Paths,
     m \in {"GET"}, q \in Queries, b \in {EmptyMap}}
  \cup
  {[xcorr |-> x, corr |-> c, path |-> p, method |-> m, query |-> q, body |-> b] :
     x \in HeaderValues("id-x"), c \in HeaderValues("id-c"), p \in {<<"/">>},
     m \in {"POST"}, q \in {EmptyMap, ("password" :> <<"hunter2">>)}, b \in Bodies}

NoRequest ==
  [xcorr |-> "", corr |-> "", path |-> <<>>, method |-> "", query |-> EmptyMap,
   body |-> EmptyMap]

\* the TypeError htmlparser2 raises when handed a non-string
SanitizeTypeError ==
  [PlainObject EXCEPT !.isError = TRUE, !.name = "TypeError",
                      !.message = <<"charCodeAt is not a function">>]

----------------------------------------------------------------------------
(* logRequest *)

\* SKIP_LOGGING_ROUTES.some((route) => req.originalUrl.startsWith(route))
SkipRoute(r) == Len(r.path) > 0 /\ r.path[1] \in SKIP_LOGGING_ROUTES

\* LOG_SAMPLING_RATE < 1.0 && Math.random() > LOG_SAMPLING_RATE, in percent
SampledOut(rate, draw) == rate < 100 /\ draw > rate

\* the lookup as errorHandler and the catch block do it: the correlation-id
\* header is not consulted
CorrelationIdXOnly(r, u) == IF r.xcorr # "" THEN r.xcorr ELSE UuidName[u]

\* req.headers["x-correlation-id"] || req.headers["correlation-id"] || uuidv4()
CorrelationId(r, u) ==
  IF r.xcorr # "" THEN r.xcorr
  ELSE IF r.corr # "" THEN r.corr
  ELSE UuidName[u]

\* { ...req.query } with the truthy sensitive values replaced by "****"
sanitizedQuery(r) ==
  [k \in DOMAIN r.query |->
     IF k \in SENSITIVE_PARAMS /\ Truthy(r.query[k]) THEN <<"****">>
     ELSE r.query[k]]

\* whether the body is copied into the log entry at all
BodyLogged(r, prod) == ~ prod /\ r.method \in {"POST", "PUT"}

\* a body value is truthy unless it is the empty string
TruthyValue(v) == v.t = "obj" \/ Truthy(v.s)

\* sanitize(value) on a body value that did not make it throw
sanitizeValue(v) ==
  IF v.t = "str" THEN Str(sanitize(v.s)) ELSE Str(<<"[object Object]">>)

\* { ...req.body } with the truthy sensitive values passed through sanitize
sanitizedBody(r) ==
  [k \in DOMAIN r.body |->
     IF k \in SENSITIVE_PARAMS /\ TruthyValue(r.body[k])
     THEN sanitizeValue(r.body[k])
     ELSE r.body[k]]

\* sanitize is handed a non-string: htmlparser2 either throws a TypeError or
\* coerces it to a string, depending on its version
SanitizeMayThrow(r, prod) ==
  /\ BodyLogged(r, prod)
  /\ \E k \in DOMAIN r.body : k \in SENSITIVE_PARAMS /\ r.body[k].t = "obj"

\* const logData: LogData = { ... }
logData(r, prod, cid) ==
  [NoEntry EXCEPT
     !.src = "finish", !.correlationId = cid, !.method = r.method,
     !.url = [path |-> r.path, query |-> r.query],
     !.hasQuery = DOMAIN r.query # {}, 
     !.query = IF DOMAIN r.query # {} THEN sanitizedQuery(r) ELSE EmptyMap,
     !.hasBody = BodyLogged(r, prod),
     !.body = IF BodyLogged(r, prod) THEN sanitizedBody(r) ELSE EmptyMap]

NoListener == [registered |-> FALSE, logData |-> NoEntry]

\* the entry the finish callback writes: logData with the response's status,
\* at the level the status selects, with the live headers outside production
FinishEntry(ld, r, prod, status) ==
  [ld EXCEPT !.statusCode = status,
             !.level = IF status >= 400 THEN "error" ELSE "info",
             !.hasHeaders = ~ prod,
             !.headers = IF prod THEN NoEntry.headers
                         ELSE [xcorr |-> r.xcorr, corr |-> r.corr]]

\* the entry logRequest's catch block writes; u is its uuidv4() draw
CatchCorrelationId(r, u) == IF r.xcorr # "" THEN r.xcorr ELSE UuidName[u]

CatchEntry(r, prod, err, u) ==
  [NoEntry EXCEPT
     !.src = "catch", !.level = "error",
     !.correlationId = CatchCorrelationId(r, u),
     !.message = <<"Error in logRequest middleware">>,
     !.hasStack = ~ prod /\ err.isError]

----------------------------------------------------------------------------
(* The life of one request: logRequest, the rest of the chain, the error    *)
(* stage (globalErrorHandler), and the response's finish event             *)

NoError == [PlainObject EXCEPT !.tag = "none"]

NoChoice == [chose |-> FALSE, id |-> "", atNext |-> ""]

\* values Math.random() takes, in percent
Draws == {25, 75}

\* errors the rest of the chain raises in the request-logging scenarios
DownstreamErrors ==
  {[PlainObject EXCEPT !.isError = TRUE, !.name = "Error", !.message = <<"boom">>],
   [PlainObject EXCEPT !.name = "JsonWebTokenError"],
   [PlainObject EXCEPT !.tag = "null"]}

ProcessInit ==
  /\ production \in BOOLEAN
  /\ samplingRate \in {100, 50}

RequestInit ==
  /\ inbound = NoRequest
  /\ req = NoRequest
  /\ mounted = FALSE
  /\ pc = "idle"
  /\ listener = NoListener
  /\ logs = <<>>
  /\ nextCalls = 0
  /\ escaped = FALSE
  /\ pending = NoError
  /\ res = NoResponse
  /\ chosenId = NoChoice

BootInit ==
  /\ bootPc = "start"
  /\ db = "none"
  /\ listening = FALSE
  /\ exitCode = -1
  /\ idx = 0
  /\ served = 0

Init ==
  /\ ProcessInit
  /\ RequestInit
  /\ BootInit
  /\ ehCalls = 0
  /\ history = {}

\* a request enters a chain that has logRequest mounted first (m) or not
Arrive(r, m) ==
  /\ pc = "idle"
  /\ inbound' = r
  /\ req' = r
  /\ mounted' = m
  /\ pc' = IF m THEN "logRequest" ELSE "chain"
  /\ UNCHANGED <<production, samplingRate, listener, logs, nextCalls, escaped,
                 pending, res, chosenId, ehCalls, history>>
  /\ UNCHANGED bootVars

\* logRequest's catch block: one error entry, then next(err); t says whether
\* that call of next throws in turn
LogRequestCatch(r, err, u, t) ==
  /\ logs' = Append(logs, CatchEntry(r, production, err, u))
  /\ nextCalls' = nextCalls + 1
  /\ escaped' = t
  /\ pending' = err
  /\ pc' = "errorStage"

\* logRequest from its first line to its call of next(): draw is
\* Math.random(), u and u2 the uuidv4() draws, strict whether sanitize throws
\* on a non-string, t whether the catch block's next(err) throws
logRequest(draw, u, u2, strict, t) ==
  /\ pc = "logRequest"
  /\ IF SkipRoute(req) \/ SampledOut(samplingRate, draw)
     THEN /\ nextCalls' = nextCalls + 1
          /\ pc' = "chain"
          /\ UNCHANGED <<req, listener, logs, escaped, pending, chosenId>>
     ELSE LET cid == CorrelationId(req, u)
              r2  == [req EXCEPT !.xcorr = cid]
          IN  /\ req' = r2
              /\ IF SanitizeMayThrow(r2, production) /\ strict
                 THEN /\ LogRequestCatch(r2, SanitizeTypeError, u2, t)
                      /\ chosenId' = [chose |-> TRUE, id |-> cid, atNext |-> r2.xcorr]
                      /\ UNCHANGED listener
                 ELSE /\ listener' = [registered |-> TRUE,
                                      logData |-> logData(r2, production, cid)]
                      /\ nextCalls' = nextCalls + 1
                      /\ chosenId' = [chose |-> TRUE, id |-> cid, atNext |-> r2.xcorr]
                      /\ pc' = "chain"
                      /\ UNCHANGED <<logs, escaped, pending>>
  /\ UNCHANGED <<production, samplingRate, inbound, mounted, res, ehCalls, history>>
  /\ UNCHANGED bootVars

\* the rest of the chain, entered through next(): it sends the response, or
\* passes an error on, or throws synchronously into logRequest's try block
Downstream(o, e, u, t) ==
  /\ pc = "chain"
  /\ CASE o = "sends" ->
            /\ res' = [NoResponse EXCEPT !.sent = TRUE, !.kind = "text",
                                         !.statusCode = 200]
            /\ pc' = "finishing"
            /\ UNCHANGED <<logs, nextCalls, escaped, pending>>
       [] o = "fails" ->
            /\ pending' = e
            /\ pc' = "errorStage"
            /\ UNCHANGED <<logs, nextCalls, escaped, res>>
       [] o = "throws" ->
            /\ mounted
            /\ LogRequestCatch(req, e, u, t)
            /\ UNCHANGED res
  /\ UNCHANGED <<production, samplingRate, inbound, req, mounted, listener,
                 chosenId, ehCalls, history>>
  /\ UNCHANGED bootVars

\* finalhandler, express's answer when no error middleware took the error
FinalHandler(hasErr) ==
  [NoResponse EXCEPT !.sent = TRUE, !.kind = "html",
                     !.statusCode = IF hasErr THEN 500 ELSE 404]

\* globalErrorHandler(err, req, res, next)
globalErrorHandler(err, r, prod, u1, u2) == errorHandler(r, err, prod, u1, u2)

\* which classification rule an error's shape belongs to: the last rule of
\* errorHandler whose condition it meets
Category(error) ==
  CASE error.cls = "AppError" -> "app"
    [] IsDuplicateKey(error) -> "duplicate"
    [] error.code = "RATE_LIMIT_EXCEEDED" -> "rateLimit"
    [] error.name = "TokenExpiredError" -> "jwtExpired"
    [] error.name = "JsonWebTokenError" -> "jwtInvalid"
    [] error.cls = "CastError" -> "cast"
    [] error.cls = "ValidationError" -> "validation"
    [] OTHER -> "default"

\* what is remembered of one errorHandler call
Outcome(err, out) ==
  [category |-> Category(err), raised |-> out.raised,
   statusCode |-> out.response.statusCode,
   errorCode |-> out.response.errorCode, message |-> out.response.message]

\* the error stage: globalErrorHandler runs errorHandler; when that throws,
\* express hands the error to finalhandler
ErrorStage(u1, u2) ==
  /\ pc = "errorStage"
  /\ LET out == globalErrorHandler(pending, req, production, u1, u2)
     IN  /\ logs' = IF out.raised THEN logs ELSE Append(logs, out.log)
         /\ res' = IF out.raised THEN FinalHandler(TRUE) ELSE out.response
         /\ history' = history \cup {Outcome(pending, out)}
  /\ ehCalls' = ehCalls + 1
  /\ pc' = "finishing"
  /\ UNCHANGED <<production, samplingRate, inbound, req, mounted, listener,
                 nextCalls, escaped, pending, chosenId>>
  /\ UNCHANGED bootVars

\* the response's finish event: the callback logRequest registered runs
Finish ==
  /\ pc = "finishing"
  /\ logs' = IF listener.registered
             THEN Append(logs, FinishEntry(listener.logData, req, production,
                                           res.statusCode))
             ELSE logs
  /\ pc' = "done"
  /\ UNCHANGED <<production, samplingRate, inbound, req, mounted, listener,
                 nextCalls, escaped, pending, res, chosenId, ehCalls, history>>
  /\ UNCHANGED bootVars

Next ==
  \/ \E r \in Requests, m \in BOOLEAN : Arrive(r, m)
  \/ \E draw \in Draws, u \in Uuids, u2 \in Uuids, strict \in BOOLEAN,
        t \in BOOLEAN : logRequest(draw, u, u2, strict, t)
  \/ \E o \in {"sends", "fails", "throws"}, e \in DownstreamErrors,
        u \in Uuids, t \in BOOLEAN : Downstream(o, e, u, t)
  \/ \E u1 \in Uuids, u2 \in Uuids : ErrorStage(u1, u2)
  \/ Finish

Spec == Init /\ [][Next]_vars

----------------------------------------------------------------------------
(* errorHandler fed synthetic errors, call after call *)

\* the requests the synthetic errors are attached to
ErrRequests ==
  {[NoRequest EXCEPT !.xcorr = x, !.path = <<"/">>, !.method = "GET"] :
     x \in HeaderValues("id-x")}

InitErr ==
  /\ production \in BOOLEAN
  /\ samplingRate = 100
  /\ RequestInit
  /\ BootInit
  /\ ehCalls = 0
  /\ history = {}

\* an error of a given shape is handed to the error stage for request r
Feed(r, e) ==
  /\ pc = "idle"
  /\ ehCalls < MaxCalls
  /\ inbound' = r
  /\ req' = r
  /\ pending' = e
  /\ pc' = "errorStage"
  /\ UNCHANGED <<production, samplingRate, mounted, listener, logs, nextCalls,
                 escaped, res, chosenId, ehCalls, history>>
  /\ UNCHANGED bootVars

\* the next request starts from a fresh request object and response
Again ==
  /\ pc = "done"
  /\ ehCalls < MaxCalls
  /\ inbound' = NoRequest
  /\ req' = NoRequest
  /\ mounted' = FALSE
  /\ pc' = "idle"
  /\ listener' = NoListener
  /\ logs' = <<>>
  /\ nextCalls' = 0
  /\ escaped' = FALSE
  /\ pending' = NoError
  /\ res' = NoResponse
  /\ chosenId' = NoChoice
  /\ UNCHANGED <<production, samplingRate, ehCalls, history>>
  /\ UNCHANGED bootVars

NextErr ==
  \/ \E r \in ErrRequests, e \in Errors : Feed(r, e)
  \/ \E u1 \in Uuids, u2 \in Uuids : ErrorStage(u1, u2)
  \/ Finish
  \/ Again

SpecErr == InitErr /\ [][NextErr]_vars

----------------------------------------------------------------------------
(* The HTTP entrypoint: its top-level code, the connection attempt that     *)
(* connectDB leaves running, and express's dispatch over the stack          *)

\* the layers in the order app.use and app.get register them
Stack ==
  <<[name |-> "cors",               errorMw |-> FALSE, route |-> FALSE],
    [name |-> "json",               errorMw |-> FALSE, route |-> FALSE],
    [name |-> "urlencoded",         errorMw |-> FALSE, route |-> FALSE],
    [name |-> "globalErrorHandler", errorMw |-> TRUE,  route |-> FALSE],
    [name |-> "GET /",              errorMw |-> FALSE, route |-> TRUE]>>

\* requests sent to the running server
EntryRequests ==
  {[NoRequest EXCEPT !.xcorr = x, !.path = p, !.method = m] :
     x \in HeaderValues("id-x"), p \in {<<"/">>, <<"/users">>},
     m \in {"GET", "POST"}}

\* the SyntaxError body-parser passes on for a malformed JSON body
BodyParseError ==
  [PlainObject EXCEPT !.isError = TRUE, !.name = "SyntaxError",
                      !.message = <<"Unexpected token">>]

\* errors a route handler throws or passes to next(err)
RouteErrors ==
  {[PlainObject EXCEPT !.isError = TRUE, !.name = "Error", !.message = <<"boom">>],
   [PlainObject EXCEPT !.isError = TRUE, !.name = "TokenExpiredError",
                       !.message = <<"jwt expired">>]}

\* connectDB(): the async function runs up to its await.  mongoose.connect
\* either returns a pending promise, or (versions that validate the URI
\* before going asynchronous) throws at once, which the catch block turns
\* into process.exit(1) before the entrypoint goes on
connectDB(syncThrow) ==
  /\ bootPc = "start"
  /\ IF syncThrow
     THEN /\ db' = "failed"
          /\ exitCode' = 1
          /\ bootPc' = "exited"
     ELSE /\ db' = "pending"
          /\ bootPc' = "connectCalled"
          /\ UNCHANGED exitCode
  /\ UNCHANGED <<listening, idx, served, production, samplingRate, ehCalls, history>>
  /\ UNCHANGED reqVars

\* app.get("/") and app.listen(PORT): the socket is bound
Listen ==
  /\ bootPc = "connectCalled"
  /\ listening' = TRUE
  /\ bootPc' = "running"
  /\ UNCHANGED <<db, exitCode, idx, served, production, samplingRate, ehCalls, history>>
  /\ UNCHANGED reqVars

\* the awaited promise resolves: connectDB logs the host
DbConnected ==
  /\ bootPc = "running"
  /\ db = "pending"
  /\ db' = "connected"
  /\ UNCHANGED <<bootPc, listening, exitCode, idx, served, production,
                 samplingRate, ehCalls, history>>
  /\ UNCHANGED reqVars

\* the awaited promise rejects: connectDB's catch block logs and exits
DbFailed ==
  /\ bootPc = "running"
  /\ db = "pending"
  /\ db' = "failed"
  /\ exitCode' = 1
  /\ bootPc' = "exited"
  /\ UNCHANGED <<listening, idx, served, production, samplingRate, ehCalls, history>>
  /\ UNCHANGED reqVars

\* the listening server accepts a request
Accept(r) ==
  /\ listening
  /\ exitCode = -1
  /\ pc = "idle"
  /\ served < MaxServed
  /\ inbound' = r
  /\ req' = r
  /\ idx' = 1
  /\ pc' = "dispatch"
  /\ UNCHANGED <<mounted, listener, logs, nextCalls, escaped, pending, res, chosenId>>
  /\ UNCHANGED <<bootPc, db, listening, exitCode, served, production,
                 samplingRate, ehCalls, history>>

\* whether express hands the request, with or without a pending error, to
\* the layer: a route needs its path and method and no pending error, an
\* error middleware (four parameters) needs a pending error, any other
\* middleware needs none
LayerRuns(layer, r, err) ==
  IF layer.route
  THEN err = NoError /\ r.path = <<"/">> /\ r.method = "GET"
  ELSE layer.errorMw <=> (err # NoError)

\* one step of express's next(): past the end of the stack finalhandler
\* answers; a layer that does not run is passed over; a layer that runs
\* calls next(), calls next(err), throws (which express turns into
\* next(err)), or answers
Dispatch(fails, e, u1, u2) ==
  /\ pc = "dispatch"
  /\ exitCode = -1
  /\ IF idx > Len(Stack)
     THEN /\ res' = FinalHandler(pending # NoError)
          /\ pc' = "finishing"
          /\ UNCHANGED <<idx, pending, logs>>
     ELSE
       LET layer == Stack[idx]
       IN  IF ~ LayerRuns(layer, req, pending)
           THEN /\ idx' = idx + 1
                /\ UNCHANGED <<pc, pending, logs, res>>
           ELSE
             CASE layer.name = "json" /\ fails /\ req.method = "POST" ->
                    /\ pending' = BodyParseError
                    /\ idx' = idx + 1
                    /\ UNCHANGED <<pc, logs, res>>
               [] layer.name = "globalErrorHandler" ->
                    LET out == globalErrorHandler(pending, req, production, u1, u2)
                    IN  IF out.raised
                        THEN /\ idx' = idx + 1
                             /\ UNCHANGED <<pc, pending, logs, res>>
                        ELSE /\ logs' = Append(logs, out.log)
                             /\ res' = out.response
                             /\ pc' = "finishing"
                             /\ UNCHANGED <<idx, pending>>
               [] layer.route /\ fails ->
                    /\ pending' = e
                    /\ idx' = idx + 1
                    /\ UNCHANGED <<pc, logs, res>>
               [] layer.route /\ ~ fails ->
                    /\ res' = [NoResponse EXCEPT !.sent = TRUE, !.kind = "text",
                                                 !.statusCode = 200]
                    /\ pc' = "finishing"
                    /\ UNCHANGED <<idx, pending, logs>>
               [] OTHER ->
                    /\ idx' = idx + 1
                    /\ UNCHANGED <<pc, pending, logs, res>>
  /\ UNCHANGED <<inbound, req, mounted, listener, nextCalls, escaped, chosenId>>
  /\ UNCHANGED <<bootPc, db, listening, exitCode, served, production,
                 samplingRate, ehCalls, history>>

\* the response went out: the next request finds fresh request state
Close ==
  /\ pc = "done"
  /\ exitCode = -1
  /\ listening
  /\ served' = served + 1
  /\ inbound' = NoRequest
  /\ req' = NoRequest
  /\ pc' = "idle"
  /\ logs' = <<>>
  /\ pending' = NoError
  /\ res' = NoResponse
  /\ idx' = 0
  /\ UNCHANGED <<mounted, listener, nextCalls, escaped, chosenId>>
  /\ UNCHANGED <<bootPc, db, listening, exitCode, production, samplingRate,
                 ehCalls, history>>

\* Finish, while the process runs
FinishServed == exitCode = -1 /\ Finish

NextEntry ==
  \/ \E syncThrow \in BOOLEAN : connectDB(syncThrow)
  \/ Listen
  \/ DbConnected
  \/ DbFailed
  \/ \E r \in EntryRequests : Accept(r)
  \/ \E fails \in BOOLEAN, e \in RouteErrors, u1 \in Uuids, u2 \in Uuids :
       Dispatch(fails, e, u1, u2)
  \/ FinishServed
  \/ Close

SpecEntry == InitErr /\ [][NextEntry]_vars

----------------------------------------------------------------------------
(* Properties *)

\* positions of the entries logRequest wrote: its finish callback's and its
\* catch block's
LogRequestEntries == {i \in DOMAIN logs : logs[i].src \in {"finish", "catch"}}

FinishEntries == {i \in DOMAIN logs : logs[i].src = "finish"}

ErrorHandlerEntries == {i \in DOMAIN logs : logs[i].src = "errorHandler"}

\* the inbound correlation header: x-correlation-id, else correlation-id
InboundCorrelation ==
  IF inbound.xcorr # "" THEN inbound.xcorr ELSE inbound.corr

\* C1: when the connection attempt started by connectDB fails, the process
\* exits with a non-zero code and the listening socket was never bound.
C1_FailFastBeforeListen ==
  db = "failed" => (exitCode > 0 /\ ~ listening)

\* C2: in the entry logRequest emits, the value recorded for a sensitive
\* key (password, token, apiKey, secret) is never the raw value the client
\* sent: not in the query field, not in the body field, not in the url.
C2_SensitiveNeverRaw ==
  \A i \in FinishEntries : \A k \in SENSITIVE_PARAMS :
    /\ (k \in DOMAIN inbound.query /\ logs[i].hasQuery)
         => logs[i].query[k] # inbound.query[k]
    /\ (k \in DOMAIN inbound.body /\ logs[i].hasBody)
         => logs[i].body[k] # inbound.body[k]
    /\ (k \in DOMAIN inbound.query /\ k \in DOMAIN logs[i].url.query)
         => logs[i].url.query[k] # inbound.query[k]

\* C3: an error of the shape of one classification rule gets exactly that
\* rule's status code, errorCode and fixed message (the cast rule's message
\* names the field, so only its status and code are fixed).
C3_RuleYieldsItsEnvelope ==
  \A h \in history :
    ~ h.raised =>
      LET c == h.category
      IN  /\ c = "validation" =>
                /\ h.statusCode = 400
                /\ h.errorCode = <<"ERR-VALIDATION-400">>
                /\ h.message = <<"Validation failed">>
          /\ c = "cast" =>
                /\ h.statusCode = 400
                /\ h.errorCode = <<"ERR-CAST-400">>
          /\ c = "jwtInvalid" =>
                /\ h.statusCode = 401
                /\ h.errorCode = <<"ERR-JWT-INVALID-401">>
                /\ h.message = <<"Invalid token. Please login again.">>
          /\ c = "jwtExpired" =>
                /\ h.statusCode = 401
                /\ h.errorCode = <<"ERR-JWT-EXPIRED-401">>
                /\ h.message = <<"Your token has expired. Please login again.">>
          /\ c = "rateLimit" =>
                /\ h.statusCode = 429
                /\ h.errorCode = <<"ERR-RATE-LIMIT-429">>
                /\ h.message = <<"Too many requests. Please try again later.">>
          /\ c = "duplicate" =>
                /\ h.statusCode = 409
                /\ h.errorCode = <<"ERR-DUPLICATE-409">>
                /\ h.message = <<"Duplicate entry found.">>

\* C4: errorHandler never raises: whatever the error value, the call ends
\* with exactly one log entry and exactly one JSON response written.
C4_NeverRaises ==
  /\ \A h \in history : ~ h.raised
  /\ (pc \in {"finishing", "done"} /\ pending # NoError) =>
       /\ Cardinality(ErrorHandlerEntries) = 1
       /\ res.sent /\ res.kind = "json"

\* C5: in the chain as the entrypoint registers it, an error raised by a
\* route handler reaches globalErrorHandler: the client gets the JSON error
\* envelope and errorHandler writes one log entry.
C5_RouteErrorsReachGlobalHandler ==
  (pc \in {"finishing", "done"} /\ pending \in RouteErrors) =>
     /\ res.kind = "json"
     /\ Cardinality(ErrorHandlerEntries) = 1

\* C6: logRequest writes at most one log entry over the life of a request,
\* counting its finish callback's entry and its catch block's entry.
C6_AtMostOneEntry ==
  Cardinality(LogRequestEntries) <= 1

\* C7: errorHandler's log entry carries the request's inbound correlation
\* header (x-correlation-id, else correlation-id), whether or not
\* logRequest ran for the request.
C7_ErrorEntryKeepsInboundId ==
  \A i \in ErrorHandlerEntries :
    InboundCorrelation # "" => logs[i].correlationId = InboundCorrelation

C9_ErrorCodeStablePerCategory ==
  \A a \in history : \A b \in history :
    (/\ ~ a.raised /\ ~ b.raised
     /\ a.category = b.category
     /\ a.statusCode = b.statusCode)
      => a.errorCode = b.errorCode

\* C9 as amended: two errorHandler calls with errors of the same classified
\* category (any category but the unclassified default) and the same status
\* code produce the same errorCode.
C9_ErrorCodeStablePerClassifiedCategory ==
  \A a \in history : \A b \in history :
    (/\ ~ a.raised /\ ~ b.raised
     /\ a.category = b.category
     /\ a.category # "default"
     /\ a.statusCode = b.statusCode)
      => a.errorCode = b.errorCode

\* two calls of one classified category answered differently (other
\* message), with the same status and errorCode
C9_Witness ==
  \E a \in history : \E b \in history :
    /\ ~ a.raised /\ ~ b.raised
    /\ a # b
    /\ a.category = "jwtInvalid" /\ b.category = "jwtInvalid"
    /\ a.statusCode = b.statusCode
    /\ a.errorCode = b.errorCode

\* C10: logRequest calls next exactly once per request and lets no
\* exception escape, also when its call of next() throws.
C10_NextExactlyOnce ==
  /\ nextCalls <= 1
  /\ ~ escaped
  /\ (mounted /\ pc \in {"chain", "errorStage", "finishing", "done"})
       => nextCalls = 1

====
